---------------------------- MODULE Spec2Model ----------------------------
(***************************************************************************)
(* Model of the identification (measurement) tool of the 3D viewer website *)
(* and of the exporter dispatcher.                                         *)
(*                                                                         *)
(* The repository holds two revisions of the tool: identificationtool.js   *)
(* ("website") and the revision that shares a file with OV.Exporter        *)
(* ("part_000").  The variable `version` says which revision runs; the     *)
(* revisions differ in Click's guard, AddMarker and UpdatePanel.           *)
(*                                                                         *)
(* Numbers: points have integer coordinates; direction vectors are fixed   *)
(* point with NormalScale per unit; angles are fixed point with AngleScale *)
(* per radian; distances between points carry DistScale per unit.          *)
(***************************************************************************)
EXTENDS Integers, Sequences, FiniteSets, TLC

VARIABLES
    version,      \* which revision of the tool is running
    settings,     \* the settings object handed to the constructor
    isActive,     \* this.isActive
    markers,      \* this.markers
    tempMarker,   \* this.tempMarker (the hover marker)
    panel,        \* this.panel
    button,       \* this.button
    extras,       \* the viewer's extra objects
    body,         \* ids of the identification panels attached to document.body
    lastCall,     \* the last call made on the tool and what it did
    calcA,        \* CalculateMarkerValues: aMarker
    calcB,        \* CalculateMarkerValues: bMarker
    calcResult,   \* CalculateMarkerValues: the returned object
    exp           \* one OV.Exporter.Export call in progress

toolVars == <<version, settings, isActive, markers, tempMarker, panel, button, extras, body, lastCall>>
calcVars == <<calcA, calcB, calcResult>>
expVars == <<exp>>
vars == <<toolVars, calcVars, expVars>>

-----------------------------------------------------------------------------
(* Bounds of the model *)

\* mouse coordinates 1..MaxMouse hit the mesh, coordinate 0 misses it
MaxMouse == 2
\* point coordinates of the markers handed to CalculateMarkerValues: 0..MaxCoord
MaxCoord == 1
\* an exporter hands at most MaxFiles files to its completion callback
MaxFiles == 2

-----------------------------------------------------------------------------
(* Values *)

\* JavaScript null
Null == [null |-> TRUE]

\* fixed-point units
NormalScale == 10^5
AngleScale == 10^5
DistScale == 10^2

\* Math.PI in AngleScale units
Pi == 314159
\* BigEps = 0.0001 in AngleScale units
BigEps == 10

Abs(x) == IF x < 0 THEN -x ELSE x

Dot(u, v) == u[1] * v[1] + u[2] * v[2] + u[3] * v[3]

\* rotation by a quarter turn about the z axis, and by q quarter turns
RotZ(v) == <<-v[2], v[1], v[3]>>

RECURSIVE ApplyRotation(_, _)
ApplyRotation(q, v) == IF q = 0 THEN v ELSE ApplyRotation(q - 1, RotZ(v))

\* a face normal rotated into world space by the object's world rotation
GetFaceWorldNormal(intersection) ==
    ApplyRotation(intersection.object.rotation, intersection.face.normal)

\* a quarter turn and a full turn in AngleScale units
HalfPi == (Pi + 1) \div 2
TwoPi == 2 * Pi

\* the largest r with r * r <= n
RECURSIVE SqrtBetween(_, _, _)
SqrtBetween(n, lo, hi) ==
    IF lo = hi THEN lo
    ELSE LET mid == (lo + hi + 1) \div 2
         IN  IF mid * mid <= n THEN SqrtBetween(n, mid, hi) ELSE SqrtBetween(n, lo, mid - 1)

Sqrt(n) == SqrtBetween(n, 0, n)

\* THREE.Vector3.distanceTo, in DistScale units
DistanceTo(p, q) ==
    LET d == <<p[1] - q[1], p[2] - q[2], p[3] - q[3]>>
    IN  Sqrt(DistScale * DistScale * Dot(d, d))

\* the direction of a vector of the xy plane that lies within a small angle
\* of an axis: the angle from the x axis, the small angle being its sine
PolarAngle(v) ==
    IF v[1] = NormalScale THEN v[2]
    ELSE IF v[2] = NormalScale THEN HalfPi - v[1]
    ELSE IF v[1] = -NormalScale THEN Pi - v[2]
    ELSE v[1] - HalfPi

\* THREE.Vector3.angleTo: acos of the clamped cosine, pi / 2 when either
\* vector has length zero; for vectors along the z axis or near an axis of the
\* xy plane
AngleTo(u, v) ==
    IF u = <<0, 0, 0>> \/ v = <<0, 0, 0>> THEN HalfPi
    ELSE IF u[3] # 0 \/ v[3] # 0
    THEN IF u[3] * v[3] > 0 THEN 0 ELSE IF u[3] * v[3] < 0 THEN Pi ELSE HalfPi
    ELSE LET d == Abs(PolarAngle(u) - PolarAngle(v)) % TwoPi
         IN  IF d > Pi THEN TwoPi - d ELSE d

\* IsEqualEps of the geometry module
IsEqualEps(a, b, eps) == Abs(b - a) < eps

\* THREE.Plane.setFromNormalAndCoplanarPoint and THREE.Plane.distanceToPoint
SetFromNormalAndCoplanarPoint(normal, point) ==
    [normal |-> normal, constant |-> -Dot(point, normal)]

DistanceToPoint(plane, point) == Dot(plane.normal, point) + plane.constant

-----------------------------------------------------------------------------
(* The scene and the page, as the tool sees them through its collaborators *)

Versions == {"website", "part_000"}

\* the settings object: backgroundIsEnvMap, and backgroundColor reduced to
\* whether blending it with the page background asks for dark text
Settings ==
    { [backgroundIsEnvMap |-> TRUE, backgroundColor |-> "dark"],
      [backgroundIsEnvMap |-> FALSE, backgroundColor |-> "dark"],
      [backgroundIsEnvMap |-> FALSE, backgroundColor |-> "light"] }

\* canvas.getBoundingClientRect() and this.panel.getBoundingClientRect()
Layouts ==
    { [canvas |-> [left |-> 0, right |-> 800, top |-> 0], panel |-> [left |-> 0, right |-> 100]],
      [canvas |-> [left |-> 200, right |-> 600, top |-> 50], panel |-> [left |-> 0, right |-> 100]] }

MouseCoordinates == 0 .. MaxMouse

\* viewer.GetMeshIntersectionUnderMouse: null off the mesh, else the point
\* hit, the face hit (its local normal) and the object hit (its rotation)
GetMeshIntersectionUnderMouse(mouseCoordinates) ==
    IF mouseCoordinates = 0
    THEN Null
    ELSE [ point  |-> <<mouseCoordinates, mouseCoordinates % 2, 0>>,
           face   |-> [normal |-> IF mouseCoordinates % 2 = 1
                                  THEN <<NormalScale, 0, 0>>
                                  ELSE <<0, 0, NormalScale>>],
           object |-> [rotation |-> mouseCoordinates % 4] ]

\* the toolbar button the page hands to SetButton: unselected until the tool
\* selects it, and the same object however often it is handed over
ToolbarButton == IF button = Null THEN [selected |-> FALSE] ELSE button

\* IsDarkTextNeededForColor(BlendBackgroundWithPageBackground(backgroundColor))
IsDarkTextNeededForColor(backgroundColor) == backgroundColor = "light"

-----------------------------------------------------------------------------
(* Marker *)

\* Marker.UpdatePosition
UpdatePosition(marker, intersection) ==
    [marker EXCEPT !.intersection = intersection,
                   !.markerObject.lookAt = GetFaceWorldNormal(intersection),
                   !.markerObject.position = intersection.point]

\* new Marker(intersection, radius); id is the identity of its markerObject
Marker(intersection, id) ==
    UpdatePosition(
        [ intersection |-> Null,
          markerObject |-> [id |-> id, visible |-> TRUE,
                            position |-> <<0, 0, 0>>, lookAt |-> <<0, 0, 0>>] ],
        intersection)

\* Marker.Show
Show(marker, show) == [marker EXCEPT !.markerObject.visible = show]

\* Marker.GetIntersection
GetIntersection(marker) == marker.intersection

\* Marker.GetObject, as the viewer's extra objects hold it
GetObject(marker) == [id |-> marker.markerObject.id, kind |-> "marker", points |-> <<>>]

\* a JavaScript number, as a field that may also hold null
Number(n) == [value |-> n]

\* CalculateMarkerValues testing the angle against zero only
CalculateMarkerValuesNearZeroOnly(aMarker, bMarker) ==
    LET aIntersection == GetIntersection(aMarker)
        bIntersection == GetIntersection(bMarker)
        aNormal == GetFaceWorldNormal(aIntersection)
        bNormal == GetFaceWorldNormal(bIntersection)
        facesAngle == AngleTo(aNormal, bNormal)
    IN  [ pointsDistance |-> Number(DistanceTo(aIntersection.point, bIntersection.point)),
          facesAngle |-> Number(facesAngle),
          parallelFacesDistance |->
              IF IsEqualEps(facesAngle, 0, BigEps)
              THEN Number(Abs(DistanceToPoint(
                                  SetFromNormalAndCoplanarPoint(aNormal, aIntersection.point),
                                  bIntersection.point)))
              ELSE Null ]

\* CalculateMarkerValues (website revision)
CalculateMarkerValues(aMarker, bMarker) ==
    LET aIntersection == GetIntersection(aMarker)
        bIntersection == GetIntersection(bMarker)
        aNormal == GetFaceWorldNormal(aIntersection)
        bNormal == GetFaceWorldNormal(bIntersection)
        facesAngle == AngleTo(aNormal, bNormal)
    IN  [ pointsDistance |-> Number(DistanceTo(aIntersection.point, bIntersection.point)),
          facesAngle |-> Number(facesAngle),
          parallelFacesDistance |->
              IF IsEqualEps(facesAngle, 0, BigEps) \/ IsEqualEps(facesAngle, Pi, BigEps)
              THEN Number(Abs(DistanceToPoint(
                                  SetFromNormalAndCoplanarPoint(aNormal, aIntersection.point),
                                  bIntersection.point)))
              ELSE Null ]

-----------------------------------------------------------------------------
(* IdentificationTool: the methods, as functions of the tool's state.      *)
(* A state `self` holds the tool's fields, the viewer's extra objects, the *)
(* panels attached to the page, the layout read by this call and whether   *)
(* the call has thrown.  A method called after a throw does nothing: the   *)
(* exception leaves the handler.                                           *)

\* the call throws `what`: nothing after it in the handler runs
Throw(self, what) == [self EXCEPT !.threw = TRUE]

\* a call `what` on a collaborator (viewer, button, DOM) whose effect on the
\* collaborator, if the model keeps it, is written at the place of the call
Called(self, what) == self

\* identities of the scene objects alive in the viewer or held by the tool
UsedIds(self) ==
    { o.id : o \in self.extras }
        \cup { self.markers[i].markerObject.id : i \in DOMAIN self.markers }
        \cup (IF self.tempMarker = Null THEN {} ELSE {self.tempMarker.markerObject.id})

\* the identity of a newly constructed scene object
NewId(self) ==
    CHOOSE i \in 1 .. (Cardinality(UsedIds(self)) + 1) :
        /\ i \notin UsedIds(self)
        /\ \A j \in 1 .. (i - 1) : j \in UsedIds(self)

\* viewer.AddExtraObject
AddExtraObject(self, object) ==
    Called([self EXCEPT !.extras = @ \cup {object}], "viewer.AddExtraObject")

\* viewer.ClearExtra
ClearExtra(self) == Called([self EXCEPT !.extras = {}], "viewer.ClearExtra")

\* CreateLineFromPoints, as a new scene object
CreateLineFromPoints(self, points) ==
    [id |-> NewId(self), kind |-> "line", points |-> points]

\* ClearMarkers forgetting the hover marker
ClearMarkersKeepingHover(self) ==
    IF self.threw THEN self
    ELSE [ClearExtra(self) EXCEPT !.markers = <<>>]

\* IdentificationTool.ClearMarkers
ClearMarkers(self) ==
    IF self.threw THEN self
    ELSE [ClearExtra(self) EXCEPT !.markers = <<>>, !.tempMarker = Null]

\* IdentificationTool.GenerateMarker: the tool's state once the marker exists;
\* the marker generated is GeneratedMarker(self, intersection)
GeneratedMarker(self, intersection) == Marker(intersection, NewId(self))

GenerateMarker(self, intersection) ==
    AddExtraObject(Called(self, "viewer.GetBoundingSphere"),
                   GetObject(GeneratedMarker(self, intersection)))

\* AddMarker putting the new marker first (unshift for push)
AddMarkerInFront(self, intersection) ==
    IF self.threw THEN self
    ELSE [GenerateMarker(self, intersection)
             EXCEPT !.markers = <<GeneratedMarker(self, intersection)>> \o @]

\* IdentificationTool.AddMarker
AddMarker(self, intersection) ==
    IF self.threw THEN self
    ELSE LET marker == GeneratedMarker(self, intersection)
             pushed == [GenerateMarker(self, intersection) EXCEPT !.markers = Append(@, marker)]
         IN  IF self.version = "website" /\ Len(pushed.markers) = 2
             THEN AddExtraObject(pushed,
                      CreateLineFromPoints(pushed,
                          << GetIntersection(pushed.markers[1]).point,
                             GetIntersection(pushed.markers[2]).point >>))
             ELSE pushed

\* IdentificationTool.Resize
Resize(self) ==
    IF self.threw \/ ~self.isActive THEN self
    ELSE IF self.panel = Null THEN Throw(self, "TypeError: this.panel is null")
    ELSE LET canvasRect == self.layout.canvas
             panelRect == self.layout.panel
             canvasWidth == canvasRect.right - canvasRect.left
             panelWidth == panelRect.right - panelRect.left
         IN  [self EXCEPT !.panel.left = canvasRect.left + (canvasWidth - panelWidth) \div 2,
                          !.panel.top = canvasRect.top + 10]

\* the x, y and z axis lines UpdatePanel draws from the origin
RECURSIVE AddAxes(_, _)
AddAxes(self, axes) ==
    IF axes = <<>> THEN self
    ELSE AddAxes(AddExtraObject(self, CreateLineFromPoints(self, <<(<<0, 0, 0>>), Head(axes)>>)),
                 Tail(axes))

\* IdentificationTool.UpdatePanel
UpdatePanel(self) ==
    IF self.threw THEN self
    ELSE IF self.panel = Null THEN Throw(self, "TypeError: this.panel is null")
    ELSE LET cleared == [self EXCEPT !.panel.text = "", !.panel.values = <<>>]
             styled ==
                 IF self.settings.backgroundIsEnvMap
                 THEN [cleared EXCEPT !.panel.color = "#ffffff",
                                      !.panel.backgroundColor = "rgba(0,0,0,0.5)"]
                 ELSE [cleared EXCEPT !.panel.color =
                                          IF IsDarkTextNeededForColor(self.settings.backgroundColor)
                                          THEN "#000000" ELSE "#ffffff",
                                      !.panel.backgroundColor = "transparent"]
             n == Len(self.markers)
             filled ==
                 IF n = 0 THEN [styled EXCEPT !.panel.text = "Select 1st"]
                 ELSE IF n = 1 THEN [styled EXCEPT !.panel.text = "Select 5th"]
                 ELSE IF n = 2 THEN [styled EXCEPT !.panel.text = "Select heel"]
                 ELSE IF self.version = "website"
                 THEN LET logged == [styled EXCEPT !.panel.text = "Check logs"]
                          sphere == [id |-> NewId(logged), kind |-> "sphere", points |-> <<>>]
                      IN  AddAxes(AddExtraObject(logged, sphere),
                                  << <<2, 0, 0>>, <<0, 2, 0>>, <<0, 0, 2>> >>)
                 ELSE styled
         IN  Resize(filled)

\* AddDiv(document.body, 'ov_identification_panel')
AddDiv(self) ==
    LET id == CHOOSE i \in 1 .. (Cardinality(self.body) + 1) :
                  i \notin self.body /\ \A j \in 1 .. (i - 1) : j \in self.body
    IN  Called([self EXCEPT !.panel = [id |-> id, text |-> "", values |-> <<>>,
                                       color |-> "", backgroundColor |-> "",
                                       left |-> 0, top |-> 0],
                            !.body = @ \cup {id}],
               "AddDiv")

\* IdentificationTool.SetButton
SetButton(self, newButton) == [self EXCEPT !.button = newButton]

\* IdentificationTool.IsActive
IsActive(self) == self.isActive

\* SetActive without the test for the value the tool already has
SetActiveAgain(self, active) ==
    LET set == [self EXCEPT !.isActive = active]
    IN  IF set.button = Null THEN Throw(set, "TypeError: this.button is null")
        ELSE LET selected == Called([set EXCEPT !.button.selected = active],
                                    "button.SetSelected")
             IN  IF active
                 THEN Resize(UpdatePanel(AddDiv(selected)))
                 ELSE LET cleared == ClearMarkers(selected)
                      IN  IF cleared.panel = Null
                          THEN Throw(cleared, "TypeError: this.panel is null")
                          ELSE Called([cleared EXCEPT !.body = @ \ {cleared.panel.id}],
                                      "panel.remove")

\* SetActive that keeps the markers when the tool is deactivated
SetActiveKeepingMarkers(self, active) ==
    IF self.isActive = active THEN self
    ELSE LET set == [self EXCEPT !.isActive = active]
         IN  IF set.button = Null THEN Throw(set, "TypeError: this.button is null")
             ELSE LET selected == Called([set EXCEPT !.button.selected = active],
                                         "button.SetSelected")
                  IN  IF active
                      THEN Resize(UpdatePanel(AddDiv(selected)))
                      ELSE IF selected.panel = Null
                           THEN Throw(selected, "TypeError: this.panel is null")
                           ELSE Called([selected EXCEPT !.body = @ \ {selected.panel.id}],
                                       "panel.remove")

\* IdentificationTool.SetActive
SetActive(self, active) ==
    IF self.isActive = active THEN self
    ELSE LET set == [self EXCEPT !.isActive = active]
         IN  IF set.button = Null THEN Throw(set, "TypeError: this.button is null")
             ELSE LET selected == Called([set EXCEPT !.button.selected = active],
                                         "button.SetSelected")
                  IN  IF active
                      THEN Resize(UpdatePanel(AddDiv(selected)))
                      ELSE LET cleared == ClearMarkers(selected)
                           IN  IF cleared.panel = Null
                               THEN Throw(cleared, "TypeError: this.panel is null")
                               ELSE Called([cleared EXCEPT !.body = @ \ {cleared.panel.id}],
                                           "panel.remove")

\* the test of Click off by one
SelectionFullAboveThree(self) == Len(self.markers) > 3

\* the test of Click that refuses a further marker
SelectionFull(self) ==
    IF self.version = "website" THEN Len(self.markers) = 3 ELSE Len(self.markers) >= 3

\* Click with the ClearMarkers call of the full branch, which the website
\* revision has commented out
ClickClearingWhenFull(self, mouseCoordinates) ==
    LET intersection == GetMeshIntersectionUnderMouse(mouseCoordinates)
    IN  IF intersection = Null THEN UpdatePanel(ClearMarkers(self))
        ELSE IF SelectionFull(self) THEN ClearMarkers(self)
        ELSE UpdatePanel(AddMarker(self, intersection))

\* Click that only refreshes the panel when the ray misses the mesh
ClickKeepingOnMiss(self, mouseCoordinates) ==
    LET intersection == GetMeshIntersectionUnderMouse(mouseCoordinates)
    IN  IF intersection = Null THEN UpdatePanel(self)
        ELSE IF SelectionFull(self) THEN self
        ELSE UpdatePanel(AddMarker(self, intersection))

\* IdentificationTool.Click
Click(self, mouseCoordinates) ==
    LET intersection == GetMeshIntersectionUnderMouse(mouseCoordinates)
    IN  IF intersection = Null THEN UpdatePanel(ClearMarkers(self))
        ELSE IF SelectionFull(self) THEN self
        ELSE UpdatePanel(AddMarker(self, intersection))

\* IdentificationTool.MouseMove
MouseMove(self, mouseCoordinates) ==
    LET intersection == GetMeshIntersectionUnderMouse(mouseCoordinates)
    IN  IF intersection = Null
        THEN IF self.tempMarker # Null
             THEN Called([self EXCEPT !.tempMarker = Show(@, FALSE)], "viewer.Render")
             ELSE self
        ELSE LET generated ==
                     IF self.tempMarker = Null
                     THEN [GenerateMarker(self, intersection)
                              EXCEPT !.tempMarker = GeneratedMarker(self, intersection)]
                     ELSE self
             IN  Called([generated EXCEPT
                            !.tempMarker = Show(UpdatePosition(@, intersection), TRUE)],
                        "viewer.Render")

-----------------------------------------------------------------------------
(* The tool's specification: calls arrive in any order, with any argument *)

\* the state a call finds, with the layout the page has during the call
Self(layout) ==
    [ version |-> version, settings |-> settings, isActive |-> isActive,
      markers |-> markers, tempMarker |-> tempMarker, panel |-> panel,
      button |-> button, extras |-> extras, body |-> body,
      layout |-> layout, threw |-> FALSE ]

\* the state a call leaves, whether it returned or threw
Returns(after, op, mouseCoordinates) ==
    /\ isActive' = after.isActive
    /\ markers' = after.markers
    /\ tempMarker' = after.tempMarker
    /\ panel' = after.panel
    /\ button' = after.button
    /\ extras' = after.extras
    /\ body' = after.body
    /\ lastCall' = [op |-> op, mouse |-> mouseCoordinates, threw |-> after.threw,
                    before |-> Len(markers)]
    /\ UNCHANGED <<version, settings>>

\* new IdentificationTool(viewer, settings)
ToolNew(revision, withSettings) ==
    /\ version = revision
    /\ settings = withSettings
    /\ isActive = FALSE
    /\ markers = <<>>
    /\ tempMarker = Null
    /\ panel = Null
    /\ button = Null
    /\ extras = {}
    /\ body = {}
    /\ lastCall = [op |-> "new", mouse |-> -1, threw |-> FALSE, before |-> 0]

ToolInit == \E revision \in Versions, withSettings \in Settings : ToolNew(revision, withSettings)

CalcIdle ==
    /\ calcA = Null
    /\ calcB = Null
    /\ calcResult = Null

ExpIdle == exp = Null

CallSetButton ==
    /\ Returns(SetButton(Self(Null), ToolbarButton), "SetButton", -1)
    /\ UNCHANGED <<calcVars, expVars>>

CallSetActive ==
    \E active \in BOOLEAN, layout \in Layouts :
        /\ Returns(SetActive(Self(layout), active),
                   IF active THEN "SetActive(true)" ELSE "SetActive(false)", -1)
        /\ UNCHANGED <<calcVars, expVars>>

CallClick ==
    \E mouseCoordinates \in MouseCoordinates, layout \in Layouts :
        /\ Returns(Click(Self(layout), mouseCoordinates), "Click", mouseCoordinates)
        /\ UNCHANGED <<calcVars, expVars>>

CallMouseMove ==
    \E mouseCoordinates \in MouseCoordinates :
        /\ Returns(MouseMove(Self(Null), mouseCoordinates), "MouseMove", mouseCoordinates)
        /\ UNCHANGED <<calcVars, expVars>>

CallResize ==
    \E layout \in Layouts :
        /\ Returns(Resize(Self(layout)), "Resize", -1)
        /\ UNCHANGED <<calcVars, expVars>>

Init == ToolInit /\ CalcIdle /\ ExpIdle

Next == CallSetButton \/ CallSetActive \/ CallClick \/ CallMouseMove \/ CallResize

Spec == Init /\ [][Next]_vars

-----------------------------------------------------------------------------
(* Properties of the tool *)

ClickHit(call) == call.op = "Click" /\ call.mouse > 0
ClickMiss(call) == call.op = "Click" /\ call.mouse = 0

\* C1: the tool never holds more than three selected markers, and a Click
\* that hits the mesh while three markers are selected leaves the markers,
\* the viewer's extra objects and the panel as they were
AtMostThreeMarkers ==
    /\ [](Len(markers) <= 3)
    /\ [][(ClickHit(lastCall') /\ Len(markers) = 3)
              => UNCHANGED <<markers, extras, panel>>]_vars

\* a Click on the mesh has been refused with three markers selected
RefusedFourthClick ==
    /\ ClickHit(lastCall)
    /\ lastCall.before = 3
    /\ Len(markers) = 3

\* C3: a Click that hits the mesh with fewer than three markers selected
\* appends exactly one new marker at the end of the list; it holds the
\* clicked intersection and sits at its point; the markers selected before
\* stay as they were, in their order
ClickAppendsMarker ==
    [][(ClickHit(lastCall') /\ Len(markers) < 3)
          => /\ Len(markers') = Len(markers) + 1
             /\ SubSeq(markers', 1, Len(markers)) = markers
             /\ LET marker == markers'[Len(markers')]
                    clicked == GetMeshIntersectionUnderMouse(lastCall'.mouse)
                IN  /\ GetIntersection(marker) = clicked
                    /\ marker.markerObject.position = clicked.point
                    /\ \A i \in DOMAIN markers :
                           markers[i].markerObject.id # marker.markerObject.id]_vars

\* a third marker has been appended behind two markers at other points
ThirdMarkerAppended ==
    /\ ClickHit(lastCall)
    /\ lastCall.before = 2
    /\ Len(markers) = 3
    /\ GetIntersection(markers[3]) = GetMeshIntersectionUnderMouse(lastCall.mouse)
    /\ GetIntersection(markers[1]) # GetIntersection(markers[3])

\* C5: in every step the list of selected markers stays the same, grows by
\* one marker appended at the end (Click on the mesh) or becomes empty (Click
\* off the mesh, deactivation); MouseMove and Resize never change it
NoUndoOrPartialRemoval ==
    [][/\ \/ markers' = markers
          \/ /\ ClickHit(lastCall')
             /\ Len(markers') = Len(markers) + 1
             /\ SubSeq(markers', 1, Len(markers)) = markers
          \/ /\ markers' = <<>>
             /\ ClickMiss(lastCall') \/ lastCall'.op = "SetActive(false)"
       /\ lastCall'.op \in {"MouseMove", "Resize"} => markers' = markers]_vars

\* a MouseMove over the mesh has left three selected markers alone
MouseMoveOverThreeMarkers ==
    /\ lastCall.op = "MouseMove"
    /\ lastCall.mouse > 0
    /\ lastCall.before = 3
    /\ Len(markers) = 3

\* the objects of the viewer that are markers and belong to no selected marker
HoverObjects ==
    { o \in extras : o.kind = "marker" } \ { GetObject(markers[i]) : i \in DOMAIN markers }

\* C9: the scene object of every selected marker and of the hover marker is
\* among the viewer's extra objects; at most one hover marker object is
\* registered, a new one being created only when the tool holds none; a step
\* that clears the extra objects drops all the tool's markers
MarkerObjectsRegistered ==
    /\ [](/\ \A i \in DOMAIN markers : GetObject(markers[i]) \in extras
          /\ tempMarker # Null => GetObject(tempMarker) \in extras
          /\ Cardinality(HoverObjects) <= 1)
    /\ [][/\ (tempMarker # Null /\ tempMarker' # Null)
                 => tempMarker'.markerObject.id = tempMarker.markerObject.id
          /\ (extras # {} /\ extras' = {})
                 => (markers' = <<>> /\ tempMarker' = Null)]_vars

\* the hover marker is registered next to three selected markers
HoverNextToThreeMarkers ==
    /\ tempMarker # Null
    /\ Len(markers) = 3
    /\ HoverObjects = {GetObject(tempMarker)}

\* C2: every Click on an active tool that brings the marker count to 2 or 3
\* shows in the panel the values CalculateMarkerValues gives for selected
\* markers
ClickShowsMarkerValues ==
    [][(/\ ClickHit(lastCall')
        /\ isActive
        /\ panel # Null
        /\ Len(markers') > Len(markers)
        /\ Len(markers') \in {2, 3})
          => /\ panel' # Null
             /\ \E i, j \in DOMAIN markers' :
                    /\ i < j
                    /\ LET values == CalculateMarkerValues(markers'[i], markers'[j])
                       IN  panel'.values = <<values.pointsDistance, values.facesAngle,
                                             values.parallelFacesDistance>>]_vars

\* C6, as claimed: an inactive tool holds no selected marker and no hover
\* marker, whatever calls arrive while it is inactive
InactiveHoldsNothing == ~isActive => (markers = <<>> /\ tempMarker = Null)

\* C6, amended: SetActive(false) on an active tool that has a button leaves
\* no selected marker and no hover marker; while the tool is inactive only
\* Click and MouseMove change its markers; activating a tool that has a
\* button and holds no markers starts from zero markers and the first prompt
DeactivationDiscardsMarkers ==
    [][/\ (lastCall'.op = "SetActive(false)" /\ isActive /\ button # Null)
              => (~isActive' /\ markers' = <<>> /\ tempMarker' = Null /\ extras' = {})
       /\ (~isActive /\ (markers' # markers \/ tempMarker' # tempMarker))
              => lastCall'.op \in {"Click", "MouseMove"}
       /\ (lastCall'.op = "SetActive(true)" /\ ~isActive /\ button # Null /\ markers = <<>>)
              => (isActive' /\ markers' = <<>> /\ panel'.text = "Select 1st")]_vars

\* three markers have been discarded by a deactivation
DeactivatedWithThreeMarkers ==
    /\ lastCall.op = "SetActive(false)"
    /\ lastCall.before = 3
    /\ ~lastCall.threw
    /\ ~isActive
    /\ markers = <<>>
    /\ tempMarker = Null

\* C7, as claimed: one panel is attached while the tool is active and none
\* while it is inactive; SetActive with the value the tool has changes nothing;
\* UpdatePanel never runs (and so never throws) on a null panel reference
OnePanelWhileActive ==
    /\ [](/\ Cardinality(body) = (IF isActive THEN 1 ELSE 0)
          /\ ~(lastCall.op = "Click" /\ lastCall.threw))
    /\ [][((lastCall'.op = "SetActive(true)" /\ isActive)
             \/ (lastCall'.op = "SetActive(false)" /\ ~isActive))
              => UNCHANGED <<isActive, markers, tempMarker, panel, button, extras, body>>]_vars

\* C7, amended: the panels attached are the tool's own panel while the tool
\* is active and has one, and none otherwise; the tool is active without a
\* panel only after SetActive(true) was called with no button set; SetActive
\* with the value the tool has changes nothing; SetActive(true) on an
\* inactive tool with a button creates the panel before UpdatePanel runs and
\* does not throw
PanelFollowsActivation ==
    /\ [](body = (IF isActive /\ panel # Null THEN {panel.id} ELSE {}))
    /\ [][/\ ((lastCall'.op = "SetActive(true)" /\ isActive)
                \/ (lastCall'.op = "SetActive(false)" /\ ~isActive))
                 => UNCHANGED <<isActive, markers, tempMarker, panel, button, extras, body>>
          /\ (lastCall'.op = "SetActive(true)" /\ ~isActive /\ button # Null)
                 => (isActive' /\ panel' # Null /\ ~lastCall'.threw /\ button'.selected)
          /\ (lastCall'.op = "SetActive(false)" /\ isActive /\ button # Null /\ panel # Null)
                 => (~isActive' /\ body' = {} /\ ~lastCall'.threw /\ ~button'.selected)
          /\ (isActive' /\ panel' = Null)
                 => (button = Null \/ (isActive /\ panel = Null))]_vars

\* SetActive(true) has returned on a tool with a button: one panel is attached
ActivatedWithOnePanel ==
    /\ lastCall.op = "SetActive(true)"
    /\ ~lastCall.threw
    /\ isActive
    /\ panel # Null
    /\ body = {panel.id}
    /\ button.selected

\* C8, as claimed: after a Click that misses the mesh the marker list is
\* empty, the hover marker is null, the viewer has no extra objects and the
\* panel shows 'Select 1st'
ClickMissResets ==
    ClickMiss(lastCall)
        => /\ markers = <<>>
           /\ tempMarker = Null
           /\ extras = {}
           /\ panel # Null
           /\ panel.text = "Select 1st"

\* C8, amended: after a Click that misses the mesh the marker list is empty,
\* the hover marker is null and the viewer has no extra objects; a tool that
\* has a panel shows 'Select 1st' in it, a tool that has none has thrown from
\* UpdatePanel after clearing
ClickMissResetsSelection ==
    ClickMiss(lastCall)
        => /\ markers = <<>>
           /\ tempMarker = Null
           /\ extras = {}
           /\ IF panel = Null
              THEN lastCall.threw
              ELSE ~lastCall.threw /\ panel.text = "Select 1st"

\* a Click off the mesh has reset three selected markers of an active tool
ThreeMarkersReset ==
    /\ ClickMiss(lastCall)
    /\ lastCall.before = 3
    /\ isActive
    /\ markers = <<>>
    /\ extras = {}
    /\ panel # Null
    /\ panel.text = "Select 1st"

-----------------------------------------------------------------------------
(* CalculateMarkerValues on its own: two markers on faces whose normals lie *)
(* near the axes of the xy plane, on objects turned by quarter turns        *)

\* face normals: along an axis, within BigEps of one, at BigEps from one,
\* beyond it, and the zero normal
FaceNormals ==
    { <<NormalScale, 0, 0>>, <<NormalScale, 5, 0>>, <<NormalScale, 10, 0>>,
      <<NormalScale, -9, 0>>, <<0, NormalScale, 0>>, <<-NormalScale, 0, 0>>,
      <<-NormalScale, 9, 0>>, <<-NormalScale, -10, 0>>, <<0, 0, 0>> }

Intersections ==
    { [ point |-> <<x, y, 0>>, face |-> [normal |-> n], object |-> [rotation |-> q] ] :
          x \in 0 .. MaxCoord, y \in 0 .. MaxCoord, n \in FaceNormals, q \in 0 .. 3 }

CalcInit ==
    /\ ToolNew("website", CHOOSE s \in Settings : s.backgroundIsEnvMap)
    /\ ExpIdle
    /\ \E a, b \in Intersections :
           /\ calcA = Marker(a, 1)
           /\ calcB = Marker(b, 2)
    /\ calcResult = Null

CallCalculateMarkerValues ==
    /\ calcResult = Null
    /\ calcResult' = CalculateMarkerValues(calcA, calcB)
    /\ UNCHANGED <<calcA, calcB, toolVars, expVars>>

CalcNext == CallCalculateMarkerValues

SpecCalc == CalcInit /\ [][CalcNext]_vars

\* the faces of the two markers are judged parallel
FacesParallel ==
    LET angle == AngleTo(GetFaceWorldNormal(GetIntersection(calcA)),
                         GetFaceWorldNormal(GetIntersection(calcB)))
    IN  Abs(angle) < BigEps \/ Abs(angle - Pi) < BigEps

\* the distance, in NormalScale units, from the second marker's point to the
\* plane through the first marker's point with the first marker's face normal
SecondPointToFirstPlane ==
    LET a == GetIntersection(calcA)
        b == GetIntersection(calcB)
        d == <<b.point[1] - a.point[1], b.point[2] - a.point[2], b.point[3] - a.point[3]>>
    IN  Abs(Dot(GetFaceWorldNormal(a), d))

\* C4: CalculateMarkerValues returns a pointsDistance and a facesAngle that
\* are not null; its parallelFacesDistance is not null exactly when the angle
\* between the two face normals is within BigEps of 0 or of pi, and is then
\* the distance, never negative, from the second marker's point to the plane
\* through the first marker's point with the first marker's normal
MarkerValuesAsSpecified ==
    calcResult # Null
        => /\ calcResult.pointsDistance # Null
           /\ calcResult.facesAngle # Null
           /\ (calcResult.parallelFacesDistance # Null) <=> FacesParallel
           /\ FacesParallel
                  => /\ calcResult.parallelFacesDistance.value >= 0
                     /\ calcResult.parallelFacesDistance.value = SecondPointToFirstPlane

\* values of two markers on faces that are opposite within BigEps, not
\* exactly, and a positive distance apart
OppositeFacesMeasured ==
    /\ calcResult # Null
    /\ calcResult.parallelFacesDistance # Null
    /\ calcResult.parallelFacesDistance.value > 0
    /\ calcResult.facesAngle.value > HalfPi
    /\ calcResult.facesAngle.value < Pi

-----------------------------------------------------------------------------
(* OV.Exporter: one Export call, then the completion callback of the       *)
(* exporter it chose.  The exporters are external: what each answers to    *)
(* CanExport (format, extension) is an input of the call, and so is the    *)
(* list of files the chosen exporter hands to its callback.                *)

\* this.exporters, in the order of the constructor
Exporters == <<"Obj", "Stl", "Ply", "Off", "Gltf">>

\* the answers of the five exporters to CanExport (format, extension)
CanExportAnswers == [DOMAIN Exporters -> BOOLEAN]

\* the file lists an exporter may produce
FileLists == { [i \in 1 .. n |-> i] : n \in 0 .. MaxFiles }

\* the loop of Export without its break: the last exporter that can export
RECURSIVE FindLastExporter(_, _)
FindLastExporter(canExport, i) ==
    IF i > Len(Exporters) THEN 0
    ELSE LET later == FindLastExporter(canExport, i + 1)
         IN  IF later # 0 THEN later ELSE IF canExport[i] THEN i ELSE 0

\* the loop of Export from exporter i on: the index of the exporter chosen,
\* 0 for null
RECURSIVE FindExporter(_, _)
FindExporter(canExport, i) ==
    IF i > Len(Exporters) THEN 0
    ELSE IF canExport[i] THEN i
    ELSE FindExporter(canExport, i + 1)

\* OV.Exporter.Export, up to the call of the chosen exporter's Export
Export(canExport) ==
    LET exporter == FindExporter(canExport, 1)
    IN  IF exporter = 0
        THEN [ pc |-> "returned", canExport |-> canExport, exporter |-> 0,
               exportCalls |-> <<>>, onError |-> 1, onSuccess |-> <<>>, files |-> <<>> ]
        ELSE [ pc |-> "exporting", canExport |-> canExport, exporter |-> exporter,
               exportCalls |-> <<Exporters[exporter]>>, onError |-> 0, onSuccess |-> <<>>,
               files |-> <<>> ]

\* the callback Export hands to the exporter
OnExported(call, files) ==
    IF Len(files) = 0
    THEN [call EXCEPT !.pc = "done", !.files = files, !.onError = @ + 1]
    ELSE [call EXCEPT !.pc = "done", !.files = files, !.onSuccess = Append(@, files)]

ExpInit ==
    /\ ToolNew("part_000", CHOOSE s \in Settings : s.backgroundIsEnvMap)
    /\ CalcIdle
    /\ exp = [ pc |-> "idle", canExport |-> [i \in DOMAIN Exporters |-> FALSE], exporter |-> 0,
               exportCalls |-> <<>>, onError |-> 0, onSuccess |-> <<>>, files |-> <<>> ]

CallExport ==
    /\ exp.pc \in {"idle", "returned", "done"}
    /\ \E canExport \in CanExportAnswers : exp' = Export(canExport)
    /\ UNCHANGED <<toolVars, calcVars>>

ExporterCompletes ==
    /\ exp.pc = "exporting"
    /\ \E files \in FileLists : exp' = OnExported(exp, files)
    /\ UNCHANGED <<toolVars, calcVars>>

ExpNext == CallExport \/ ExporterCompletes

SpecExport == ExpInit /\ [][ExpNext]_vars

\* the exporters that answer CanExport with true
AbleExporters == { i \in DOMAIN Exporters : exp.canExport[i] }

\* C10: the exporter used is the first in the fixed order whose CanExport is
\* true; when there is none, onError is called and no exporter's Export is;
\* otherwise the chosen exporter's Export is called, and once it has called
\* back exactly one of onError (no files) and onSuccess (the files) has been
\* called, once
ExportDispatch ==
    exp.pc # "idle"
        => /\ exp.exporter = (IF AbleExporters = {} THEN 0
                              ELSE CHOOSE i \in AbleExporters : \A j \in AbleExporters : i <= j)
           /\ AbleExporters = {}
                  => /\ exp.pc = "returned"
                     /\ exp.onError = 1
                     /\ exp.onSuccess = <<>>
                     /\ exp.exportCalls = <<>>
           /\ AbleExporters # {}
                  => /\ exp.pc \in {"exporting", "done"}
                     /\ exp.exportCalls = <<Exporters[exp.exporter]>>
                     /\ exp.pc = "exporting" => (exp.onError = 0 /\ exp.onSuccess = <<>>)
                     /\ (exp.pc = "done" /\ exp.files = <<>>)
                            => (exp.onError = 1 /\ exp.onSuccess = <<>>)
                     /\ (exp.pc = "done" /\ exp.files # <<>>)
                            => (exp.onError = 0 /\ exp.onSuccess = <<exp.files>>)

\* the Ply exporter, the first of two able ones, has exported two files
FirstAbleExporterSucceeded ==
    /\ exp.pc = "done"
    /\ AbleExporters = {3, 5}
    /\ exp.exporter = 3
    /\ Len(exp.files) = 2
    /\ exp.onSuccess = <<exp.files>>

=============================================================================
